---- MODULE Spec2Model ----
(***************************************************************************)
(* Echo prompt generator: the single-page view (frontend/src/App.tsx) and  *)
(* its API client (services/api, promptService, templateService).          *)
(*                                                                         *)
(* The view is a React component: its state is the useState cells, every   *)
(* event handler runs to completion on the UI thread, and the              *)
(* continuation of an awaited request runs as one step when the request    *)
(* completes.  Text that the code inspects character by character (the     *)
(* prompt, the search query, template names and categories) is a sequence  *)
(* of one-character strings; text the code only stores, compares with ''   *)
(* or passes on is a string.  The temperature is counted in tenths.        *)
(* The two collapsible panels (showAdvanced, showTemplates) only hide or   *)
(* show inputs of the input view and can be opened at any moment; the      *)
(* actions below are the events of the opened panels.  localStorage is    *)
(* the browser's store, a set of <<key, value>> pairs with one value per   *)
(* key; the view and the client only read it.                              *)
(***************************************************************************)
EXTENDS Integers, Sequences, FiniteSets, TLC

VARIABLES inputPrompt, loading, result, error, templates, searchQuery,
          selectedTemplate, temperature, maxTokens, customSystemPrompt,
          inflight, clipboard, localStorage

vars == <<inputPrompt, loading, result, error, templates, searchQuery,
          selectedTemplate, temperature, maxTokens, customSystemPrompt,
          inflight, clipboard, localStorage>>

(***************************************************************************)
(* Bounds of the model.                                                    *)
(***************************************************************************)
MaxTemplates == 2

MaxFilterQueryLen == 2

MaxFilterTemplates == 2

(***************************************************************************)
(* Program constants.                                                      *)
(***************************************************************************)
TempDefault == 3

TempMin == 1

TempMax == 10

TokensDefault == 2048

TokensMin == 256

TokensMax == 4096

FallbackError == "Failed to enhance prompt"

EnhanceUrl == "/prompts/enhance/"

TemplatesUrl == "/templates/"

TokenKey == "auth_token"

\* JavaScript null (useState<...|null>(null)) and undefined (an absent value).
null == [isNull |-> TRUE]

\* a property value of an object literal: undefined, or defined with a value
undefined == <<>>

Defined(x) == <<x>>

(***************************************************************************)
(* Text.                                                                   *)
(***************************************************************************)
Whitespace == {" ", "\t", "\n"}

RECURSIVE TextsUpTo(_, _)
TextsUpTo(chars, n) ==
    IF n = 0 THEN {<<>>}
    ELSE LET shorter == TextsUpTo(chars, n - 1)
         IN  shorter \cup {Append(t, c) : t \in shorter, c \in chars}

\* what the user types into the prompt: nothing, white space only, a word,
\* a word with white space around it
PromptTexts == {<<>>, <<" ", "\n">>, <<"a">>, <<" ", "a", "\t">>}

\* what the user types into the search box of the view
QueryTexts == {<<>>, <<"B">>}

\* the search queries and template lists the filter is explored with
FilterChars == {"a", "B", "c"}

FilterQueryTexts == TextsUpTo(FilterChars, MaxFilterQueryLen)

\* String.prototype.trimStart / trimEnd / trim
RECURSIVE TrimStart(_)
TrimStart(s) ==
    IF s # <<>> /\ Head(s) \in Whitespace THEN TrimStart(Tail(s)) ELSE s

RECURSIVE TrimEnd(_)
TrimEnd(s) ==
    IF s # <<>> /\ s[Len(s)] \in Whitespace
    THEN TrimEnd(SubSeq(s, 1, Len(s) - 1))
    ELSE s

TrimIdentity(s) == s

trim(s) == TrimEnd(TrimStart(s))

\* String.prototype.toLowerCase, one character
LowerChar(c) ==
    CASE c = "A" -> "a"
      [] c = "B" -> "b"
      [] c = "C" -> "c"
      [] OTHER   -> c

toLowerCase(s) == [i \in 1..Len(s) |-> LowerChar(s[i])]

\* String.prototype.includes
includes(s, q) ==
    \E i \in 0..(Len(s) - Len(q)) : SubSeq(s, i + 1, i + Len(q)) = q

(***************************************************************************)
(* Templates the backend serves.  Ids are distinct (primary keys).         *)
(***************************************************************************)
TemplateName(i) ==
    CASE i % 3 = 1 -> <<"A", "b">>
      [] i % 3 = 2 -> <<"c">>
      [] OTHER     -> <<"b", "A">>

TemplateCategory(i) ==
    CASE i % 3 = 1 -> <<"c">>
      [] i % 3 = 2 -> <<"C", "a">>
      [] OTHER     -> <<"B">>

Template(i) ==
    [id |-> i, name |-> TemplateName(i), category |-> TemplateCategory(i)]

\* the lists the backend may return: the first k templates
TemplateLists == {[i \in 1..k |-> Template(i)] : k \in 0..MaxTemplates}

\* body of GET /templates/: a raw list (an array, which has no `results`
\* property) or a paginated envelope
TemplateResponses ==
    {[elements |-> l] : l \in TemplateLists}
        \cup {[count |-> Len(l), results |-> l] : l \in TemplateLists}

\* response.data.results is truthy (a list, also an empty one, is truthy)
HasResults(data) == "results" \in DOMAIN data

\* templateService.getTemplates: response.data.results || response.data
getTemplatesResultsOrEmpty(data) ==
    IF HasResults(data) THEN data.results ELSE <<>>

getTemplates(data) == IF HasResults(data) THEN data.results ELSE data.elements

(***************************************************************************)
(* Derived view values.                                                    *)
(***************************************************************************)
\* the template matches the search query
MatchesNameOnly(t, q) == includes(toLowerCase(t.name), toLowerCase(q))

Matches(t, q) ==
    \/ includes(toLowerCase(t.name), toLowerCase(q))
    \/ includes(toLowerCase(t.category), toLowerCase(q))

\* Array.prototype.filter
RECURSIVE filter(_, _)
filter(list, q) ==
    IF list = <<>> THEN <<>>
    ELSE IF Matches(Head(list), q)
         THEN <<Head(list)>> \o filter(Tail(list), q)
         ELSE filter(Tail(list), q)

filteredTemplates == filter(templates, searchQuery)

\* {!result ? INPUT VIEW : RESULTS VIEW}
InputViewShown == result = null

ResultViewShown == result # null

\* disabled={!inputPrompt.trim() || loading}
EnhanceDisabledNoLoading == trim(inputPrompt) = <<>>

EnhanceDisabled == trim(inputPrompt) = <<>> \/ loading

\* {result.enhanced.consolidated_prompt}
RenderedSummary == result.enhanced.improvement_summary

RenderedPrompt == result.enhanced.consolidated_prompt

(***************************************************************************)
(* Requests and responses.                                                 *)
(***************************************************************************)
\* JSON.stringify drops the keys whose value is undefined
Serialize(obj) ==
    [k \in {f \in DOMAIN obj : obj[f] # undefined} |-> obj[k][1]]

\* the argument of enhancePrompt, built by handleEnhance
EnhanceRequestTrimmed ==
    [prompt_text          |-> Defined(trim(inputPrompt)),
     template_id          |-> IF selectedTemplate = null THEN undefined
                              ELSE Defined(selectedTemplate.id),
     temperature          |-> Defined(temperature),
     max_tokens           |-> Defined(maxTokens),
     custom_system_prompt |-> IF customSystemPrompt = "" THEN undefined
                              ELSE Defined(customSystemPrompt)]

EnhanceRequest ==
    [prompt_text          |-> Defined(inputPrompt),
     template_id          |-> IF selectedTemplate = null THEN undefined
                              ELSE Defined(selectedTemplate.id),
     temperature          |-> Defined(temperature),
     max_tokens           |-> Defined(maxTokens),
     custom_system_prompt |-> IF customSystemPrompt = "" THEN undefined
                              ELSE Defined(customSystemPrompt)]

(***************************************************************************)
(* API client: the axios instance and its request interceptor.             *)
(***************************************************************************)
\* localStorage.getItem(key): null (here <<>>) or the stored string
getItem(key) ==
    IF \E pair \in localStorage : pair[1] = key
    THEN Defined((CHOOSE pair \in localStorage : pair[1] = key)[2])
    ELSE <<>>

\* axios.create({ headers: { 'Content-Type': 'application/json' } })
DefaultHeaders == [ContentType |-> Defined("application/json"),
                   Authorization |-> undefined]

\* apiClient.interceptors.request.use: if (token) config.headers.Authorization = ...
interceptAlways(config) ==
    LET token == getItem(TokenKey)
    IN  IF token # <<>>
        THEN [config EXCEPT !.headers.Authorization =
                                Defined("Bearer " \o token[1])]
        ELSE config

intercept(config) ==
    LET token == getItem(TokenKey)
    IN  IF token # <<>> /\ token[1] # ""
        THEN [config EXCEPT !.headers.Authorization =
                                Defined("Bearer " \o token[1])]
        ELSE config

\* the request as it leaves: interceptor applied, absent headers dropped
Send(config) == [intercept(config) EXCEPT !.headers = Serialize(@)]

\* promptService.enhancePrompt: apiClient.post('/prompts/enhance/', request)
enhancePrompt(request) ==
    Send([method |-> "POST", url |-> EnhanceUrl, headers |-> DefaultHeaders,
          data |-> Serialize(request)])

\* templateService.getTemplates: apiClient.get('/templates/')
TemplatesRequest ==
    Send([method |-> "GET", url |-> TemplatesUrl, headers |-> DefaultHeaders])

IsEnhance(req) == req.url = EnhanceUrl

EnhanceInFlight == {i \in 1..Len(inflight) : IsEnhance(inflight[i])}

Remove(s, i) == SubSeq(s, 1, i - 1) \o SubSeq(s, i + 1, Len(s))

\* bodies of a successful POST /prompts/enhance/
EnhanceResponses ==
    {[id |-> 1,
      enhanced |-> [consolidated_prompt |-> "You are an expert",
                    improvement_summary |-> "Added a persona"]],
     [id |-> 2,
      enhanced |-> [consolidated_prompt |-> " Act as a reviewer\n",
                    improvement_summary |-> "Added a task"]]}

\* what a failed request rejects with: an axios error, with or without a
\* response, whose data may or may not carry an error field
EnhanceErrors ==
    {[message |-> "Network Error"],
     [message |-> ""],
     [message |-> "Request failed with status code 500",
      response |-> [data |-> [error |-> "quota exceeded"]]],
     [message |-> "Request failed with status code 400",
      response |-> [data |-> [error |-> ""]]],
     [message |-> "Request failed with status code 404",
      response |-> [data |-> [detail |-> "Not found"]]],
     [message |-> "", response |-> [data |-> [detail |-> "Not found"]]]}

\* err.response?.data?.error is truthy
HasServerError(err) ==
    /\ "response" \in DOMAIN err
    /\ "data" \in DOMAIN err.response
    /\ "error" \in DOMAIN err.response.data
    /\ err.response.data.error # ""

HasMessage(err) == "message" \in DOMAIN err /\ err.message # ""

\* err.response?.data?.error || err.message || 'Failed to enhance prompt'
ErrorMessageTransportFirst(err) ==
    IF HasMessage(err) THEN err.message
    ELSE IF HasServerError(err) THEN err.response.data.error
    ELSE FallbackError

ErrorMessage(err) ==
    IF HasServerError(err) THEN err.response.data.error
    ELSE IF HasMessage(err) THEN err.message
    ELSE FallbackError

(***************************************************************************)
(* Initial state: the component is mounted and the mount effect has        *)
(* called loadTemplates, whose GET is in flight.                           *)
(***************************************************************************)
Init ==
    /\ inputPrompt = <<>>
    /\ loading = FALSE
    /\ result = null
    /\ error = ""
    /\ templates = <<>>
    /\ searchQuery = <<>>
    /\ selectedTemplate = null
    /\ temperature = TempDefault
    /\ maxTokens = TokensDefault
    /\ customSystemPrompt = ""
    /\ localStorage = {}
    /\ inflight = <<TemplatesRequest>>
    /\ clipboard = ""

(***************************************************************************)
(* loadTemplates                                                           *)
(***************************************************************************)
LoadTemplatesSuccessClearsLoading(i, data) ==
    /\ i \in 1..Len(inflight)
    /\ ~IsEnhance(inflight[i])
    /\ templates' = getTemplates(data)
    /\ inflight' = Remove(inflight, i)
    /\ loading' = FALSE
    /\ UNCHANGED <<inputPrompt, result, error, searchQuery,
                   selectedTemplate, temperature, maxTokens,
                   customSystemPrompt, clipboard, localStorage>>

LoadTemplatesSuccess(i, data) ==
    /\ i \in 1..Len(inflight)
    /\ ~IsEnhance(inflight[i])
    /\ templates' = getTemplates(data)
    /\ inflight' = Remove(inflight, i)
    /\ UNCHANGED <<inputPrompt, loading, result, error, searchQuery,
                   selectedTemplate, temperature, maxTokens,
                   customSystemPrompt, clipboard,
                   localStorage>>

LoadTemplatesFailureSetsError(i) ==
    /\ i \in 1..Len(inflight)
    /\ ~IsEnhance(inflight[i])
    /\ inflight' = Remove(inflight, i)
    /\ error' = "Failed to load templates"
    /\ UNCHANGED <<inputPrompt, loading, result, templates, searchQuery,
                   selectedTemplate, temperature, maxTokens,
                   customSystemPrompt, clipboard, localStorage>>

LoadTemplatesFailure(i) ==
    /\ i \in 1..Len(inflight)
    /\ ~IsEnhance(inflight[i])
    /\ inflight' = Remove(inflight, i)
    /\ UNCHANGED <<inputPrompt, loading, result, error, templates, searchQuery,
                   selectedTemplate, temperature, maxTokens,
                   customSystemPrompt, clipboard,
                   localStorage>>

(***************************************************************************)
(* Input view: the prompt, the advanced settings, the template panel.      *)
(***************************************************************************)
\* <textarea onChange={(e) => setInputPrompt(e.target.value)}>
setInputPrompt(value) ==
    /\ InputViewShown
    /\ inputPrompt' = value
    /\ UNCHANGED <<loading, result, error, templates, searchQuery,
                   selectedTemplate, temperature, maxTokens,
                   customSystemPrompt, inflight, clipboard,
                   localStorage>>

\* the values the sliders are moved to
SliderTemperatures == {TempDefault, TempMax}

SliderTokens == {TokensMin, TokensDefault}

CustomPrompts == {"", "Answer in French"}

\* onChange={(e) => setTemperature(parseFloat(e.target.value))}
setTemperature(value) ==
    /\ InputViewShown
    /\ temperature' = value
    /\ UNCHANGED <<inputPrompt, loading, result, error, templates, searchQuery,
                   selectedTemplate, maxTokens, customSystemPrompt, inflight,
                   clipboard,
                   localStorage>>

\* onChange={(e) => setMaxTokens(parseInt(e.target.value))}
setMaxTokens(value) ==
    /\ InputViewShown
    /\ maxTokens' = value
    /\ UNCHANGED <<inputPrompt, loading, result, error, templates, searchQuery,
                   selectedTemplate, temperature, customSystemPrompt, inflight,
                   clipboard,
                   localStorage>>

\* onChange={(e) => setCustomSystemPrompt(e.target.value)}
setCustomSystemPromptDeselects(value) ==
    /\ InputViewShown
    /\ customSystemPrompt' = value
    /\ selectedTemplate' = IF value = "" THEN selectedTemplate ELSE null
    /\ UNCHANGED <<inputPrompt, loading, result, error, templates, searchQuery,
                   temperature, maxTokens, inflight, clipboard, localStorage>>

setCustomSystemPrompt(value) ==
    /\ InputViewShown
    /\ customSystemPrompt' = value
    /\ UNCHANGED <<inputPrompt, loading, result, error, templates, searchQuery,
                   selectedTemplate, temperature, maxTokens, inflight,
                   clipboard,
                   localStorage>>

\* onChange={(e) => setSearchQuery(e.target.value)}
setSearchQueryFiltersHeld(value) ==
    /\ InputViewShown
    /\ searchQuery' = value
    /\ templates' = filter(templates, value)
    /\ UNCHANGED <<inputPrompt, loading, result, error,
                   selectedTemplate, temperature, maxTokens,
                   customSystemPrompt, inflight, clipboard, localStorage>>

setSearchQuery(value) ==
    /\ InputViewShown
    /\ searchQuery' = value
    /\ UNCHANGED <<inputPrompt, loading, result, error, templates,
                   selectedTemplate, temperature, maxTokens,
                   customSystemPrompt, inflight, clipboard,
                   localStorage>>

\* applyTemplate, from the button of a template of the filtered list
applyTemplateKeepCustom(template) ==
    /\ InputViewShown
    /\ \E k \in 1..Len(filteredTemplates) : filteredTemplates[k] = template
    /\ selectedTemplate' = template
    /\ UNCHANGED <<inputPrompt, loading, result, error, templates, searchQuery,
                   temperature, maxTokens, customSystemPrompt, inflight,
                   clipboard,
                   localStorage>>

applyTemplateFillsInput(template) ==
    /\ InputViewShown
    /\ \E k \in 1..Len(filteredTemplates) : filteredTemplates[k] = template
    /\ selectedTemplate' = template
    /\ customSystemPrompt' = ""
    /\ inputPrompt' = template.name
    /\ UNCHANGED <<loading, result, error, templates, searchQuery,
                   temperature, maxTokens, inflight, clipboard, localStorage>>

applyTemplate(template) ==
    /\ InputViewShown
    /\ \E k \in 1..Len(filteredTemplates) : filteredTemplates[k] = template
    /\ selectedTemplate' = template
    /\ customSystemPrompt' = ""
    /\ UNCHANGED <<inputPrompt, loading, result, error, templates, searchQuery,
                   temperature, maxTokens, inflight, clipboard,
                   localStorage>>

(***************************************************************************)
(* handleEnhance, up to the await: the request leaves.                     *)
(***************************************************************************)
handleEnhanceKeepsError ==
    IF trim(inputPrompt) = <<>>
    THEN UNCHANGED vars
    ELSE /\ loading' = TRUE
         /\ inflight' = Append(inflight, enhancePrompt(EnhanceRequest))
         /\ UNCHANGED <<inputPrompt, result, error, templates, searchQuery,
                        selectedTemplate, temperature, maxTokens,
                        customSystemPrompt, clipboard, localStorage>>

handleEnhance ==
    IF trim(inputPrompt) = <<>>
    THEN UNCHANGED vars
    ELSE /\ loading' = TRUE
         /\ error' = ""
         /\ inflight' = Append(inflight, enhancePrompt(EnhanceRequest))
         /\ UNCHANGED <<inputPrompt, result, templates, searchQuery,
                        selectedTemplate, temperature, maxTokens,
                        customSystemPrompt, clipboard,
                   localStorage>>

\* a click on the Enhance button: a disabled button drops the click
ClickEnhance ==
    /\ InputViewShown
    /\ IF EnhanceDisabled THEN UNCHANGED vars ELSE handleEnhance

(***************************************************************************)
(* handleEnhance, after the await: try, catch and finally.                 *)
(***************************************************************************)
EnhanceSuccessKeepsLoading(i, response) ==
    /\ i \in EnhanceInFlight
    /\ inflight' = Remove(inflight, i)
    /\ result' = response
    /\ UNCHANGED <<inputPrompt, loading, error, templates, searchQuery,
                   selectedTemplate, temperature, maxTokens,
                   customSystemPrompt, clipboard,
                   localStorage>>

EnhanceSuccess(i, response) ==
    /\ i \in EnhanceInFlight
    /\ inflight' = Remove(inflight, i)
    /\ result' = response
    /\ loading' = FALSE
    /\ UNCHANGED <<inputPrompt, error, templates, searchQuery,
                   selectedTemplate, temperature, maxTokens,
                   customSystemPrompt, clipboard,
                   localStorage>>

EnhanceFailureRawMessage(i, err) ==
    /\ i \in EnhanceInFlight
    /\ inflight' = Remove(inflight, i)
    /\ error' = err.message
    /\ loading' = FALSE
    /\ UNCHANGED <<inputPrompt, result, templates, searchQuery,
                   selectedTemplate, temperature, maxTokens,
                   customSystemPrompt, clipboard,
                   localStorage>>

EnhanceFailureKeepsLoading(i, err) ==
    /\ i \in EnhanceInFlight
    /\ inflight' = Remove(inflight, i)
    /\ error' = ErrorMessage(err)
    /\ UNCHANGED <<inputPrompt, loading, result, templates, searchQuery,
                   selectedTemplate, temperature, maxTokens,
                   customSystemPrompt, clipboard, localStorage>>

EnhanceFailureRetries(i, err) ==
    /\ i \in EnhanceInFlight
    /\ inflight' = Append(Remove(inflight, i), inflight[i])
    /\ error' = ErrorMessage(err)
    /\ UNCHANGED <<inputPrompt, loading, result, templates, searchQuery,
                   selectedTemplate, temperature, maxTokens,
                   customSystemPrompt, clipboard, localStorage>>

EnhanceFailure(i, err) ==
    /\ i \in EnhanceInFlight
    /\ inflight' = Remove(inflight, i)
    /\ error' = ErrorMessage(err)
    /\ loading' = FALSE
    /\ UNCHANGED <<inputPrompt, result, templates, searchQuery,
                   selectedTemplate, temperature, maxTokens,
                   customSystemPrompt, clipboard,
                   localStorage>>

(***************************************************************************)
(* Result view.                                                            *)
(***************************************************************************)
\* handleSavePrompt: a placeholder, it only shows an alert
handleSavePrompt ==
    /\ ResultViewShown
    /\ UNCHANGED vars

\* onClick={() => navigator.clipboard.writeText(result.enhanced.consolidated_prompt)}
Copy ==
    /\ ResultViewShown
    /\ clipboard' = result.enhanced.consolidated_prompt
    /\ UNCHANGED <<inputPrompt, loading, result, error, templates, searchQuery,
                   selectedTemplate, temperature, maxTokens,
                   customSystemPrompt, inflight,
                   localStorage>>

\* onClick={() => { setResult(null); setInputPrompt(''); setSearchQuery(''); }}
EnhanceAnotherDeselects ==
    /\ ResultViewShown
    /\ result' = null
    /\ inputPrompt' = <<>>
    /\ searchQuery' = <<>>
    /\ selectedTemplate' = null
    /\ UNCHANGED <<loading, error, templates, temperature, maxTokens,
                   customSystemPrompt, inflight, clipboard,
                   localStorage>>

EnhanceAnother ==
    /\ ResultViewShown
    /\ result' = null
    /\ inputPrompt' = <<>>
    /\ searchQuery' = <<>>
    /\ UNCHANGED <<loading, error, templates, selectedTemplate, temperature,
                   maxTokens, customSystemPrompt, inflight, clipboard,
                   localStorage>>

(***************************************************************************)
(* The view.                                                               *)
(***************************************************************************)
Next ==
    \/ \E i \in 1..Len(inflight), data \in TemplateResponses :
          LoadTemplatesSuccess(i, data)
    \/ \E i \in 1..Len(inflight) : LoadTemplatesFailure(i)
    \/ \E value \in PromptTexts : setInputPrompt(value)
    \/ \E value \in SliderTemperatures : setTemperature(value)
    \/ \E value \in SliderTokens : setMaxTokens(value)
    \/ \E value \in CustomPrompts : setCustomSystemPrompt(value)
    \/ \E value \in QueryTexts : setSearchQuery(value)
    \/ \E k \in 1..Len(filteredTemplates) : applyTemplate(filteredTemplates[k])
    \/ ClickEnhance
    \/ \E i \in 1..Len(inflight), response \in EnhanceResponses :
          EnhanceSuccess(i, response)
    \/ \E i \in 1..Len(inflight), err \in EnhanceErrors :
          EnhanceFailure(i, err)
    \/ handleSavePrompt
    \/ Copy
    \/ EnhanceAnother

Spec == Init /\ [][Next]_vars

(***************************************************************************)
(* The template filter on its own: the template list has been loaded, the  *)
(* user types into the search box.                                         *)
(***************************************************************************)
TemplateUniverse == {Template(i) : i \in 1..3}

FilterTemplateLists ==
    {l \in UNION {[1..n -> TemplateUniverse] : n \in 0..MaxFilterTemplates} :
        \A j, k \in 1..Len(l) : j # k => l[j].id # l[k].id}

InitFilter ==
    /\ inputPrompt = <<>>
    /\ loading = FALSE
    /\ result = null
    /\ error = ""
    /\ templates \in FilterTemplateLists
    /\ searchQuery = <<>>
    /\ selectedTemplate = null
    /\ temperature = TempDefault
    /\ maxTokens = TokensDefault
    /\ customSystemPrompt = ""
    /\ inflight = <<>>
    /\ clipboard = ""
    /\ localStorage = {}

NextFilter == \E value \in FilterQueryTexts : setSearchQuery(value)

SpecFilter == InitFilter /\ [][NextFilter]_vars

(***************************************************************************)
(* The view with a backend that answers: a request in flight is eventually *)
(* resolved or rejected (the client sets no timeout of its own).           *)
(***************************************************************************)
EnhanceCompletes ==
    \E i \in 1..Len(inflight) :
        \/ \E response \in EnhanceResponses : EnhanceSuccess(i, response)
        \/ \E err \in EnhanceErrors : EnhanceFailure(i, err)

SpecLive == Spec /\ WF_vars(EnhanceCompletes)

(***************************************************************************)
(* The API client with a store that other pages of the origin write (a     *)
(* login page stores the token, a logout removes it).                      *)
(***************************************************************************)
Storages ==
    {{}, {<<TokenKey, "">>}, {<<TokenKey, "abc123">>}, {<<"theme", "abc123">>}}

SetStorage(store) ==
    /\ localStorage' = store
    /\ UNCHANGED <<inputPrompt, loading, result, error, templates, searchQuery,
                   selectedTemplate, temperature, maxTokens,
                   customSystemPrompt, inflight, clipboard>>

InitAuth ==
    /\ inputPrompt = <<>>
    /\ loading = FALSE
    /\ result = null
    /\ error = ""
    /\ templates = <<>>
    /\ searchQuery = <<>>
    /\ selectedTemplate = null
    /\ temperature = TempDefault
    /\ maxTokens = TokensDefault
    /\ customSystemPrompt = ""
    /\ localStorage \in Storages
    /\ inflight = <<TemplatesRequest>>
    /\ clipboard = ""

NextAuth ==
    \/ \E store \in Storages : SetStorage(store)
    \/ \E i \in 1..Len(inflight), data \in TemplateResponses :
          LoadTemplatesSuccess(i, data)
    \/ \E i \in 1..Len(inflight) : LoadTemplatesFailure(i)
    \/ \E value \in PromptTexts : setInputPrompt(value)
    \/ ClickEnhance
    \/ \E i \in 1..Len(inflight), response \in EnhanceResponses :
          EnhanceSuccess(i, response)
    \/ \E i \in 1..Len(inflight), err \in EnhanceErrors :
          EnhanceFailure(i, err)
    \/ EnhanceAnother

SpecAuth == InitAuth /\ [][NextAuth]_vars

(***************************************************************************)
(* Properties.                                                             *)
(***************************************************************************)
IsBlank(s) == \A k \in 1..Len(s) : s[k] \in Whitespace

NoNewEnhanceRequest ==
    Cardinality(EnhanceInFlight') <= Cardinality(EnhanceInFlight)

\* C1: at most one enhancement request is in flight at any time; while one
\* is pending no step (a submit included) issues another.
C1_SingleInFlight ==
    /\ Cardinality(EnhanceInFlight) <= 1
    /\ loading <=> EnhanceInFlight # {}

C1_Witness ==
    /\ loading
    /\ Cardinality(EnhanceInFlight) = 1
    /\ InputViewShown
    /\ ~IsBlank(inputPrompt)

\* C2: from a state whose prompt is empty or whitespace only, no step issues
\* an enhance request, and a click on Enhance leaves the loading flag, the
\* error, the result and the input text as they are.
C2_BlankSubmitIssuesNothing ==
    [][IsBlank(inputPrompt) =>
          /\ NoNewEnhanceRequest
          /\ ClickEnhance =>
                UNCHANGED <<loading, error, result, inputPrompt, inflight>>]_vars

C2_Witness ==
    /\ InputViewShown
    /\ inputPrompt # <<>>
    /\ IsBlank(inputPrompt)
    /\ ~loading
    /\ error # ""
    /\ EnhanceInFlight = {}

\* C3: a successful completion of the in-flight request takes the view from
\* Submitting (loading, no result) to ResultDisplayed (result held, not
\* loading); the result is the response, the rendered consolidated prompt is
\* the response's consolidated_prompt, and Copy copies that same text.
C3_SuccessShowsResponse ==
    [][/\ \A i \in 1..Len(inflight), response \in EnhanceResponses :
             EnhanceSuccess(i, response) =>
                /\ loading /\ result = null
                /\ ~loading' /\ result' = response
                /\ RenderedPrompt' = response.enhanced.consolidated_prompt
       /\ clipboard' # clipboard =>
             /\ result # null
             /\ clipboard' = RenderedPrompt]_vars

C3_Witness ==
    /\ ResultViewShown
    /\ ~loading
    /\ RenderedPrompt = " Act as a reviewer\n"
    /\ clipboard = " Act as a reviewer\n"

\* C4: a failed completion of the in-flight request leaves the view in
\* Editing (no result, not loading) with a non-empty error message, and does
\* not touch the input text, whatever was typed while the request was away.
C4_FailureKeepsInput ==
    [][\A i \in 1..Len(inflight), err \in EnhanceErrors :
          EnhanceFailure(i, err) =>
             /\ result' = null
             /\ ~loading'
             /\ error' # ""
             /\ inputPrompt' = inputPrompt]_vars

C4_Witness ==
    /\ InputViewShown
    /\ ~loading
    /\ EnhanceInFlight = {}
    /\ error = FallbackError
    /\ inputPrompt = <<" ", "\n">>

\* C5: applying template T selects T and empties the custom system prompt;
\* the selection is none or one template of the held list, and at most one
\* entry of the list is marked as selected.
SelectedEntries ==
    {k \in 1..Len(templates) :
        selectedTemplate # null /\ selectedTemplate.id = templates[k].id}

SingleSelection ==
    /\ selectedTemplate # null =>
          \E k \in 1..Len(templates) : templates[k] = selectedTemplate
    /\ Cardinality(SelectedEntries) <= 1

C5_ApplyTemplateSelectsOne ==
    [][/\ \A k \in 1..Len(templates) :
             (selectedTemplate' = templates[k] /\ applyTemplate(templates[k])) =>
                /\ selectedTemplate' = templates[k]
                /\ customSystemPrompt' = ""
       /\ SingleSelection
       /\ SingleSelection']_vars

C5_Witness ==
    /\ Len(templates) >= 2
    /\ selectedTemplate = templates[2]
    /\ SelectedEntries = {2}
    /\ customSystemPrompt = ""
    /\ temperature # TempDefault

\* C6: the filtered list is the held list restricted, in order, to the
\* templates whose lower-cased name or category contains the lower-cased
\* query; an empty query keeps every template.
ContainsLowerCased(s, q) ==
    \E a \in 0..Len(s) :
        /\ a + Len(q) <= Len(s)
        /\ \A k \in 1..Len(q) : LowerChar(s[a + k]) = LowerChar(q[k])

Retained ==
    {k \in 1..Len(templates) :
        \/ ContainsLowerCased(templates[k].name, searchQuery)
        \/ ContainsLowerCased(templates[k].category, searchQuery)}

C6_FilterRetainsMatches ==
    /\ Len(filteredTemplates) = Cardinality(Retained)
    /\ \E pos \in [1..Len(filteredTemplates) -> Retained] :
          /\ \A j, k \in 1..Len(filteredTemplates) : j < k => pos[j] < pos[k]
          /\ \A j \in 1..Len(filteredTemplates) :
                filteredTemplates[j] = templates[pos[j]]
    /\ searchQuery = <<>> => filteredTemplates = templates

C6_Witness ==
    /\ Len(templates) = 2
    /\ searchQuery = <<"c", "a">>
    /\ filteredTemplates = <<Template(2)>>
    /\ templates[2] = Template(2)

\* C7: 'enhance another' (the step that drops the held result) empties the
\* input text and the search query and leaves the view in Editing; the
\* selected template, the temperature, the max-tokens value, the custom
\* system prompt and the held template list stay as they are.
C7_EnhanceAnotherFrame ==
    [][(result # null /\ result' = null) =>
          /\ inputPrompt' = <<>>
          /\ searchQuery' = <<>>
          /\ ~loading'
          /\ UNCHANGED <<selectedTemplate, temperature, maxTokens,
                         customSystemPrompt, templates>>]_vars

C7_Witness ==
    /\ InputViewShown
    /\ ~loading
    /\ clipboard # ""
    /\ inputPrompt = <<>>
    /\ searchQuery = <<>>
    /\ selectedTemplate # null
    /\ temperature = TempMax
    /\ maxTokens = TokensMin
    /\ customSystemPrompt # ""
    /\ templates # <<>>

\* C8: the body of every enhance request is built from the view state of the
\* step that sends it: the prompt as typed, the current temperature and
\* max-tokens value, template_id exactly when a template is selected (its
\* id), custom_system_prompt exactly when the custom text is non-empty.
SentRequests ==
    {k \in 1..Len(inflight') :
        /\ IsEnhance(inflight'[k])
        /\ k > Len(inflight)}

C8_RequestBodyFromState ==
    [][\A k \in SentRequests :
          LET body == inflight'[k].data
          IN  /\ {"prompt_text", "temperature", "max_tokens"}
                    \subseteq DOMAIN body
              /\ DOMAIN body \subseteq
                    {"prompt_text", "temperature", "max_tokens",
                     "template_id", "custom_system_prompt"}
              /\ body.prompt_text = inputPrompt
              /\ body.temperature = temperature
              /\ body.max_tokens = maxTokens
              /\ "template_id" \in DOMAIN body <=> selectedTemplate # null
              /\ "template_id" \in DOMAIN body =>
                    body.template_id = selectedTemplate.id
              /\ "custom_system_prompt" \in DOMAIN body <=>
                    customSystemPrompt # ""
              /\ "custom_system_prompt" \in DOMAIN body =>
                    body.custom_system_prompt = customSystemPrompt]_vars

C8_Witness ==
    \E k \in EnhanceInFlight :
        inflight[k].data =
            [prompt_text |-> <<" ", "a", "\t">>,
             temperature |-> TempDefault,
             max_tokens  |-> TokensDefault]

\* C9: the result view is shown exactly when a result is held and the input
\* view otherwise; the result appears only with a successful response to a
\* pending request and disappears only with 'enhance another', and while it
\* is held nothing is loading and no enhance request is in flight.
ResultViewIdle ==
    /\ InputViewShown # ResultViewShown
    /\ ResultViewShown <=> result \in EnhanceResponses
    /\ ResultViewShown => ~loading /\ EnhanceInFlight = {}

C9_OneViewNoRequestWithResult ==
    [][/\ ResultViewIdle
       /\ ResultViewIdle'
       /\ result' # result =>
             \/ /\ result = null
                /\ loading
                /\ Cardinality(EnhanceInFlight') < Cardinality(EnhanceInFlight)
             \/ /\ result # null
                /\ result' = null
                /\ inputPrompt' = <<>>]_vars

C9_Witness ==
    /\ ResultViewShown
    /\ ~InputViewShown
    /\ inputPrompt # <<>>
    /\ clipboard # ""
    /\ clipboard # RenderedPrompt

\* C10: after a failed request the error shown is the response's error field
\* when present and non-empty, else the error's message when present and
\* non-empty, else 'Failed to enhance prompt'.
C10_ErrorMessagePriority ==
    [][\A i \in 1..Len(inflight), err \in EnhanceErrors :
          EnhanceFailure(i, err) =>
             LET server == "response" \in DOMAIN err
                              /\ "error" \in DOMAIN err.response.data
                              /\ err.response.data.error # ""
                 transport == "message" \in DOMAIN err /\ err.message # ""
             IN  /\ server => error' = err.response.data.error
                 /\ ~server /\ transport => error' = err.message
                 /\ ~server /\ ~transport =>
                       error' = "Failed to enhance prompt"]_vars

C10_Witness ==
    /\ error = "quota exceeded"
    /\ ~loading
    /\ InputViewShown

\* C11: with a backend that answers, a view that is loading eventually stops
\* loading; a request leaves the network only by completing, and its
\* completion clears the loading flag with either a result or an error set.
C11_RequestCompletes ==
    /\ loading ~> ~loading
    /\ [][Cardinality(EnhanceInFlight') < Cardinality(EnhanceInFlight) =>
             /\ ~loading'
             /\ \/ result' # null /\ result # result'
                \/ error' # "" /\ result' = null]_vars

C11_Witness ==
    /\ ~loading
    /\ EnhanceInFlight = {}
    /\ error = "Network Error"
    /\ inputPrompt = <<"a">>
    /\ selectedTemplate # null

\* C12 as stated: a failure issues no request, a request is only ever issued
\* by a click on Enhance, and after the failure the Enhance button is enabled
\* whenever the input text is non-empty.
C12_EnabledWhenNonEmpty ==
    [][/\ ~NoNewEnhanceRequest => ClickEnhance
       /\ \A i \in 1..Len(inflight), err \in EnhanceErrors :
             EnhanceFailure(i, err) =>
                /\ EnhanceInFlight' = {}
                /\ inputPrompt' # <<>> => ~EnhanceDisabled']_vars

\* C12, amended: a failure issues no request, a request is only ever issued
\* by a click on Enhance, and after the failure the Enhance button is enabled
\* whenever the input text holds a character that is not white space.
C12_NoRetryEnabledWhenNotBlank ==
    [][/\ ~NoNewEnhanceRequest => ClickEnhance
       /\ \A i \in 1..Len(inflight), err \in EnhanceErrors :
             EnhanceFailure(i, err) =>
                /\ EnhanceInFlight' = {}
                /\ ~IsBlank(inputPrompt') => ~EnhanceDisabled']_vars

C12_Witness ==
    /\ InputViewShown
    /\ error = "Request failed with status code 404"
    /\ EnhanceInFlight = {}
    /\ ~IsBlank(inputPrompt)
    /\ ~EnhanceDisabled

\* C13: the template list is requested once, by the mount effect, and never
\* again; when that request fails the held list is and stays empty, the
\* error message is not touched, and the input view is left as it was, so
\* the prompt can still be edited and submitted.
TemplatesInFlight == {i \in 1..Len(inflight) : ~IsEnhance(inflight[i])}

C13_LoadOnceFailureSilent ==
    /\ Cardinality(TemplatesInFlight) = 1
    /\ [][/\ TemplatesInFlight' # {} =>
                /\ Cardinality(TemplatesInFlight) = 1
                /\ Cardinality(TemplatesInFlight') = 1
          /\ \A i \in 1..Len(inflight) :
                LoadTemplatesFailure(i) =>
                   /\ templates = <<>>
                   /\ templates' = <<>>
                   /\ error' = error
                   /\ InputViewShown' = InputViewShown
                   /\ EnhanceDisabled' = EnhanceDisabled
                   /\ UNCHANGED <<inputPrompt, loading, result>>]_vars

C13_Witness ==
    /\ TemplatesInFlight = {}
    /\ templates = <<>>
    /\ error = ""
    /\ loading
    /\ inputPrompt = <<" ", "a", "\t">>

\* C14: the held template list changes only when the mount-time request
\* completes, from empty to the list that request returned, and never after;
\* typing in the search box changes the filtered list, not the held one.
C14_HeldListSetOnce ==
    [][/\ templates' # templates =>
             /\ templates = <<>>
             /\ TemplatesInFlight # {}
             /\ TemplatesInFlight' = {}
             /\ templates' \in TemplateLists
             /\ UNCHANGED <<searchQuery, inputPrompt, result,
                            selectedTemplate, loading, error>>
       /\ searchQuery' # searchQuery => templates' = templates]_vars

C14_Witness ==
    /\ templates # <<>>
    /\ TemplatesInFlight = {}
    /\ searchQuery = <<"B">>
    /\ Len(filteredTemplates) < Len(templates)
    /\ clipboard # ""

\* C15: applying a template leaves the input text, the result, the error
\* message, the loading flag, the temperature, the max-tokens value and the
\* search query as they are and sends nothing.
C15_ApplyTemplateFrame ==
    [][(\/ selectedTemplate' # selectedTemplate
        \/ \E k \in 1..Len(templates) :
              selectedTemplate' = templates[k] /\ applyTemplate(templates[k])) =>
          UNCHANGED <<inputPrompt, result, error, loading, temperature,
                      maxTokens, searchQuery, inflight>>]_vars

C15_Witness ==
    /\ loading
    /\ selectedTemplate # null
    /\ \E k \in EnhanceInFlight : "template_id" \notin DOMAIN inflight[k].data
    /\ searchQuery = <<"B">>
    /\ temperature = TempMax

\* C16: a request carries the header Authorization: Bearer <token> exactly
\* when a non-empty token is stored under 'auth_token' at the moment the
\* request is sent, and no Authorization header otherwise; this holds for
\* the request sent on mount and for every request sent later.
StoredTokens == {pair[2] : pair \in {q \in localStorage : q[1] = "auth_token"}}

AuthorizedAsStored(req) ==
    /\ "Authorization" \in DOMAIN req.headers <=> StoredTokens \ {""} # {}
    /\ "Authorization" \in DOMAIN req.headers =>
          \E token \in StoredTokens :
              req.headers.Authorization = "Bearer " \o token

NewRequests == {k \in 1..Len(inflight') : k > Len(inflight)}

C16_BearerTokenWhenStored ==
    /\ \A k \in 1..Len(inflight) : AuthorizedAsStored(inflight[k])
    /\ [][\A k \in NewRequests : AuthorizedAsStored(inflight'[k])]_vars

C16_Witness ==
    /\ Len(inflight) = 2
    /\ "Authorization" \notin DOMAIN inflight[1].headers
    /\ IsEnhance(inflight[2])
    /\ "Authorization" \in DOMAIN inflight[2].headers
    /\ inflight[2].headers.Authorization = "Bearer abc123"
    /\ localStorage = {<<"auth_token", "">>}

\* C17: getTemplates yields the same list for a raw list and for the same
\* list wrapped in the `results` field of an envelope, the empty list
\* included, and that list is what the view then holds.
C17_EnvelopeOrRawList ==
    [][\A i \in 1..Len(inflight), list \in TemplateLists :
          /\ LoadTemplatesSuccess(i, [elements |-> list]) => templates' = list
          /\ LoadTemplatesSuccess(i, [count |-> Len(list), results |-> list])
                => templates' = list]_vars

C17_Witness ==
    /\ Len(templates) = 2
    /\ templates[2].id = 2
    /\ TemplatesInFlight = {}
    /\ inputPrompt = <<>>
    /\ ~loading
    /\ InputViewShown
    /\ clipboard = ""

\* C18: the step that sends an enhance request empties the error message,
\* and whenever a result is held the error message is empty.
ResultWithoutError == result # null => error = ""

C18_NoErrorBesideResult ==
    [][/\ ~NoNewEnhanceRequest => error' = ""
       /\ ResultWithoutError
       /\ ResultWithoutError']_vars

C18_Witness ==
    /\ ResultViewShown
    /\ error = ""
    /\ RenderedPrompt = "You are an expert"
    /\ clipboard = " Act as a reviewer\n"
    /\ customSystemPrompt # ""

\* C19: the completion of the template load, successful or not, leaves the
\* loading flag, the result, the error message and the input text alone
\* (and takes no enhance request off the network); the completion of an
\* enhance request leaves the held template list and the pending template
\* load alone.
C19_LoadAndEnhanceIndependent ==
    [][/\ Cardinality(TemplatesInFlight') < Cardinality(TemplatesInFlight) =>
             /\ UNCHANGED <<loading, result, error, inputPrompt>>
             /\ Cardinality(EnhanceInFlight') = Cardinality(EnhanceInFlight)
       /\ Cardinality(EnhanceInFlight') < Cardinality(EnhanceInFlight) =>
             /\ templates' = templates
             /\ Cardinality(TemplatesInFlight')
                   = Cardinality(TemplatesInFlight)]_vars

C19_Witness ==
    /\ TemplatesInFlight # {}
    /\ ResultViewShown
    /\ templates = <<>>
    /\ clipboard # ""

\* C20: a selected template is never deselected, and every enhance request
\* sent while a template is selected carries a template_id.
C20_TemplateStaysSelected ==
    [][selectedTemplate # null =>
          /\ selectedTemplate' # null
          /\ \A k \in SentRequests :
                "template_id" \in DOMAIN inflight'[k].data]_vars

C20_Witness ==
    /\ selectedTemplate # null
    /\ clipboard # ""
    /\ customSystemPrompt # ""
    /\ \E k \in EnhanceInFlight :
          /\ "template_id" \in DOMAIN inflight[k].data
          /\ inflight[k].data.template_id = selectedTemplate.id

====
